---- MODULE Spec2Model ----
(***************************************************************************)
(* The team / player store of kpl-backend and the Express handlers that    *)
(* read and write it.                                                      *)
(*                                                                         *)
(* The two tables are sets of rows; the SERIAL primary keys are the two    *)
(* sequence counters.  A model method (Team.js, Player.js) is an operator  *)
(* over the tables that returns what the SQL statement returns and the     *)
(* tables it leaves behind; a controller is an operator over the database  *)
(* that returns the HTTP response and the database it leaves behind; an    *)
(* action is one request handled from its first line to its response.      *)
(*                                                                         *)
(* A JavaScript value that may be undefined or null is NULL (<<>>) or      *)
(* Some(v) (<<v>>).  A string is a sequence of one-character strings.      *)
(* The created_at / updated_at columns are not modelled.                   *)
(***************************************************************************)
EXTENDS Integers, Sequences, FiniteSets, TLC

\* Largest value the teams / players SERIAL sequences may reach.
MaxTeams == 2
MaxPlayers == 1

\* Largest number of handlers that wait for a query at the same time.
MaxInFlight == 2

\* users.id of the registered users; every token carries one of them.
Users == {1, 2}

NULL == <<>>
Some(v) == <<v>>

\* ------------------------------------------------------------------
\* JavaScript helpers

\* String.prototype.trim
RECURSIVE TrimStart(_)
TrimStart(s) == IF s # <<>> /\ Head(s) = " " THEN TrimStart(Tail(s)) ELSE s

RECURSIVE TrimEnd(_)
TrimEnd(s) == IF s # <<>> /\ s[Len(s)] = " " THEN TrimEnd(SubSeq(s, 1, Len(s) - 1)) ELSE s

\* a trim that strips nothing
trimNothing(s) == s

trim(s) == TrimEnd(TrimStart(s))

\* Truthiness of an optional string: undefined, null and '' are falsy.
TruthyStr(o) == o # NULL /\ o[1] # <<>>

\* Truthiness of an optional number: undefined, null and 0 are falsy.
TruthyNum(o) == o # NULL /\ o[1] # 0

\* x || null, for an optional number
OrNull(o) == IF TruthyNum(o) THEN o ELSE NULL

\* ------------------------------------------------------------------
\* Schema (CREATE TABLE teams / players)

\* team_logo and team_color the controller falls back to
DefaultTeamLogo == <<"@">>
DefaultTeamColor == <<"#", "0", "e", "a", "5", "e", "9">>

\* a players table without the foreign key on team_id
FkTeamNotChecked(T, teamId) == TRUE

\* FOREIGN KEY (team_id) REFERENCES teams(id): the check a player write makes
FkTeamOk(T, teamId) == teamId = NULL \/ \E t \in T : t.id = teamId[1]

\* ON DELETE SET NULL that nulls the team of every player, not only of those
\* that referenced a deleted team
OnDeleteSetNullAll(P, gone) ==
  { IF gone # {} THEN [p EXCEPT !.team_id = NULL] ELSE p : p \in P }

\* ON DELETE CASCADE in the place of ON DELETE SET NULL
OnDeleteCascade(P, gone) ==
  { p \in P : ~(p.team_id # NULL /\ p.team_id[1] \in gone) }

\* ... ON DELETE SET NULL: what deleting the team rows with ids `gone` does
\* to the players table
OnDeleteSetNull(P, gone) ==
  { IF p.team_id # NULL /\ p.team_id[1] \in gone
      THEN [p EXCEPT !.team_id = NULL]
      ELSE p : p \in P }

\* ------------------------------------------------------------------
\* Team model

\* the columns every Team SELECT lists (user_id is not among them)
TeamColumns(t) ==
  [id |-> t.id, team_name |-> t.team_name, team_logo |-> t.team_logo,
   team_color |-> t.team_color, description |-> t.description]

\* INSERT INTO teams ... RETURNING *
Team_create(T, seq, teamName, teamLogo, teamColor, description, userId) ==
  LET row == [id |-> seq + 1, team_name |-> teamName, team_logo |-> teamLogo,
              team_color |-> teamColor, description |-> description,
              user_id |-> userId]
  IN [row |-> row, teams |-> T \cup {row}, teamSeq |-> seq + 1]

\* SELECT ... FROM teams WHERE id = $1 AND user_id = $2; rows[0] || null
Team_findById(T, id, userId) ==
  LET hit == {t \in T : t.id = id /\ t.user_id = userId}
  IN IF hit = {} THEN NULL ELSE Some(TeamColumns(CHOOSE t \in hit : TRUE))

\* COUNT(p.id) of teams t LEFT JOIN players p ON t.id = p.team_id, for one t
PlayerCount(P, t) == Cardinality({p \in P : p.team_id = Some(t.id)})

Team_findByIdWithPlayerCount(T, P, id, userId) ==
  LET hit == {t \in T : t.id = id /\ t.user_id = userId}
  IN IF hit = {} THEN NULL
     ELSE LET t == CHOOSE x \in hit : TRUE
          IN Some([id |-> t.id, team_name |-> t.team_name,
                   team_logo |-> t.team_logo, team_color |-> t.team_color,
                   description |-> t.description,
                   player_count |-> PlayerCount(P, t)])

\* UPDATE teams SET ..., user_id = $6 WHERE id = $5: the caller's id written
\* where it should be matched
Team_updateTakingOver(T, id, teamName, teamLogo, teamColor, description, userId) ==
  [ok |-> \E t \in T : t.id = id,
   teams |-> { IF t.id = id
                 THEN [t EXCEPT !.team_name = teamName, !.team_logo = teamLogo,
                                !.team_color = teamColor,
                                !.description = description, !.user_id = userId]
                 ELSE t : t \in T }]

\* UPDATE teams SET ... WHERE id = $5 AND user_id = $6; rowCount > 0
Team_update(T, id, teamName, teamLogo, teamColor, description, userId) ==
  [ok |-> \E t \in T : t.id = id /\ t.user_id = userId,
   teams |-> { IF t.id = id /\ t.user_id = userId
                 THEN [t EXCEPT !.team_name = teamName, !.team_logo = teamLogo,
                                !.team_color = teamColor,
                                !.description = description]
                 ELSE t : t \in T }]

\* DELETE FROM teams WHERE id = $1 AND user_id = $2; rowCount > 0
Team_delete(T, P, id, userId) ==
  LET hit == {t \in T : t.id = id /\ t.user_id = userId}
  IN [ok |-> hit # {},
      teams |-> T \ hit,
      players |-> OnDeleteSetNull(P, {t.id : t \in hit})]

\* ------------------------------------------------------------------
\* ORDER BY

\* the characters the requests below are written with, in code-point order
Alphabet == <<" ", "#", "%", "0", "5", "9", "@", "A", "B", "L", "_", "a", "b", "d",
              "e", "f">>

Rank(c) == CHOOSE i \in 1..Len(Alphabet) : Alphabet[i] = c

\* a < b for two strings
RECURSIVE StrLess(_, _)
StrLess(a, b) ==
  IF b = <<>> THEN FALSE
  ELSE IF a = <<>> THEN TRUE
  ELSE IF Head(a) = Head(b) THEN StrLess(Tail(a), Tail(b))
  ELSE Rank(Head(a)) < Rank(Head(b))

\* The sequences that list each row of S once: result.rows of a SELECT over S,
\* before its ORDER BY.  A query keeps those in which no row comes after a row
\* that its ORDER BY puts strictly behind it, so that rows the ORDER BY does
\* not tell apart come in any order.
Rows(S) ==
  { s \in [1..Cardinality(S) -> S] :
      \A i, j \in 1..Cardinality(S) : i # j => s[i] # s[j] }

\* ORDER BY t.team_name ASC
ByTeamName(x, y) == StrLess(x.team_name, y.team_name)

\* SELECT ..., COUNT(p.id) FROM teams t LEFT JOIN players p ON t.id = p.team_id
\* WHERE t.user_id = $1 GROUP BY t.id ORDER BY ...
Team_findAllWithPlayerCounts(T, P, userId) ==
  { s \in Rows({ [id |-> t.id, team_name |-> t.team_name, team_logo |-> t.team_logo,
             team_color |-> t.team_color, description |-> t.description,
             player_count |-> PlayerCount(P, t)]
            : t \in {x \in T : x.user_id = userId} }) :
      \A i, j \in 1..Len(s) : i < j => ~ByTeamName(s[j], s[i]) }

\* ------------------------------------------------------------------
\* Player model

\* INSERT INTO players ... RETURNING *, with team_id = teamId || null.  The
\* sequence value is taken before the foreign key is checked.
Player_create(T, P, seq, playerName, position, jerseyNumber, teamId, userId) ==
  LET row == [id |-> seq + 1, player_name |-> playerName, position |-> position,
              jersey_number |-> jerseyNumber, team_id |-> OrNull(teamId),
              user_id |-> userId]
      fk == FkTeamOk(T, OrNull(teamId))
  IN [threw |-> ~fk, row |-> row,
      players |-> IF fk THEN P \cup {row} ELSE P,
      playerSeq |-> seq + 1]

\* the team columns a player row is joined with (all null without a team)
TeamOf(T, p) == {t \in T : p.team_id = Some(t.id)}

PlayerWithTeam(T, p) ==
  LET ts == TeamOf(T, p)
      t == CHOOSE x \in ts : TRUE
  IN [id |-> p.id, player_name |-> p.player_name, position |-> p.position,
      jersey_number |-> p.jersey_number, team_id |-> p.team_id,
      team_name |-> IF ts = {} THEN NULL ELSE Some(t.team_name),
      team_color |-> IF ts = {} THEN NULL ELSE Some(t.team_color),
      team_logo |-> IF ts = {} THEN NULL ELSE Some(t.team_logo)]

\* ORDER BY p.player_name ASC alone
ByPlayerNameOnly(x, y) == StrLess(x.player_name, y.player_name)

\* ORDER BY CASE WHEN p.team_id IS NULL THEN 0 ELSE 1 END,
\*          t.team_name ASC NULLS FIRST, p.player_name ASC
ByTeamThenName(x, y) ==
  LET gx == IF x.team_id = NULL THEN 0 ELSE 1
      gy == IF y.team_id = NULL THEN 0 ELSE 1
  IN \/ gx < gy
     \/ /\ gx = gy
        /\ \/ x.team_name = NULL /\ y.team_name # NULL
           \/ /\ x.team_name # NULL /\ y.team_name # NULL
              /\ StrLess(x.team_name[1], y.team_name[1])
           \/ /\ x.team_name = y.team_name
              /\ StrLess(x.player_name, y.player_name)

\* SELECT ... FROM players p LEFT JOIN teams t ON p.team_id = t.id
\* WHERE p.user_id = $1 ORDER BY ...
Player_findAllByUserId(T, P, userId) ==
  { s \in Rows({PlayerWithTeam(T, p) : p \in {q \in P : q.user_id = userId}}) :
      \A i, j \in 1..Len(s) : i < j => ~ByTeamThenName(s[j], s[i]) }

\* lower case of a character, as ILIKE folds it
Lower(c) ==
  CASE c = "A" -> "a"
    [] c = "B" -> "b"
    [] c = "L" -> "l"
    [] OTHER -> c

\* text LIKE pattern, case folded: % stands for any run of characters and _
\* for any one character.  (The escape character is not among the characters
\* of Alphabet.)
RECURSIVE ILike(_, _)
ILike(text, pattern) ==
  IF pattern = <<>> THEN text = <<>>
  ELSE IF Head(pattern) = "%"
    THEN ILike(text, Tail(pattern)) \/ (text # <<>> /\ ILike(Tail(text), pattern))
  ELSE /\ text # <<>>
       /\ Head(pattern) = "_" \/ Lower(Head(pattern)) = Lower(Head(text))
       /\ ILike(Tail(text), Tail(pattern))

\* SELECT ... FROM players p LEFT JOIN teams t ON p.team_id = t.id
\* WHERE p.user_id = $1 AND (p.player_name ILIKE $2 OR t.team_name ILIKE $2)
\* ORDER BY ..., with $2 = `%${searchQuery}%`
Player_search(T, P, searchQuery, userId) ==
  LET pattern == <<"%">> \o searchQuery \o <<"%">>
      hit == { p \in P :
                 /\ p.user_id = userId
                 /\ \/ ILike(p.player_name, pattern)
                    \/ \E t \in TeamOf(T, p) : ILike(t.team_name, pattern) }
  IN { s \in Rows({PlayerWithTeam(T, p) : p \in hit}) :
         \A i, j \in 1..Len(s) : i < j => ~ByTeamThenName(s[j], s[i]) }

\* the columns findGlobalPlayers and findAllByTeamId list
PlayerColumns(p) ==
  [id |-> p.id, player_name |-> p.player_name, position |-> p.position,
   jersey_number |-> p.jersey_number]

\* ORDER BY player_name ASC
ByName(x, y) == StrLess(x.player_name, y.player_name)

\* the same SELECT with the team_id IS NULL condition forgotten
Player_findGlobalPlayersAll(P, userId) ==
  { s \in Rows({PlayerColumns(p) : p \in {q \in P : q.user_id = userId}}) :
      \A i, j \in 1..Len(s) : i < j => ~ByName(s[j], s[i]) }

\* SELECT ... FROM players WHERE user_id = $1 AND team_id IS NULL ORDER BY ...
Player_findGlobalPlayers(P, userId) ==
  { s \in Rows({PlayerColumns(p) : p \in {q \in P : q.user_id = userId /\ q.team_id = NULL}}) :
      \A i, j \in 1..Len(s) : i < j => ~ByName(s[j], s[i]) }

\* ORDER BY CASE WHEN position IS NULL THEN 1 ELSE 0 END, position ASC,
\*          player_name ASC
ByPositionThenName(x, y) ==
  LET nx == IF x.position = NULL THEN 1 ELSE 0
      ny == IF y.position = NULL THEN 1 ELSE 0
  IN \/ nx < ny
     \/ /\ nx = ny
        /\ \/ x.position # NULL /\ StrLess(x.position[1], y.position[1])
           \/ /\ x.position = y.position
              /\ StrLess(x.player_name, y.player_name)

\* SELECT ... FROM players WHERE team_id = $1 AND user_id = $2 ORDER BY ...
Player_findAllByTeamId(P, teamId, userId) ==
  { s \in Rows({PlayerColumns(p) :
             p \in {q \in P : q.team_id = Some(teamId) /\ q.user_id = userId}}) :
      \A i, j \in 1..Len(s) : i < j => ~ByPositionThenName(s[j], s[i]) }

\* the same SELECT with ORDER BY player_name ASC, as findGlobalPlayers has it
Team_hierarchyPlayersByName(P, teamId, userId) ==
  { s \in Rows({PlayerColumns(p) :
             p \in {q \in P : q.team_id = Some(teamId) /\ q.user_id = userId}}) :
      \A i, j \in 1..Len(s) : i < j => ~ByName(s[j], s[i]) }

\* Team.getTeamHierarchy's own SELECT ... FROM players WHERE team_id = $1 AND
\* user_id = $2 ORDER BY CASE WHEN position IS NULL THEN 1 ELSE 0 END,
\* position ASC, player_name ASC
Team_hierarchyPlayers(P, teamId, userId) ==
  { s \in Rows({PlayerColumns(p) :
             p \in {q \in P : q.team_id = Some(teamId) /\ q.user_id = userId}}) :
      \A i, j \in 1..Len(s) : i < j => ~ByPositionThenName(s[j], s[i]) }

\* the same SELECT with LEFT JOIN teams in the place of JOIN teams
Player_findByIdLeftJoin(T, P, id, userId) ==
  LET hit == {p \in P : p.id = id /\ p.user_id = userId}
      p == CHOOSE x \in hit : TRUE
      ts == TeamOf(T, p)
      t == CHOOSE x \in ts : TRUE
  IN IF hit = {} THEN NULL
     ELSE Some([id |-> p.id, player_name |-> p.player_name,
                position |-> p.position, jersey_number |-> p.jersey_number,
                team_id |-> p.team_id,
                team_name |-> IF ts = {} THEN <<>> ELSE t.team_name,
                team_color |-> IF ts = {} THEN <<>> ELSE t.team_color])

\* SELECT ... FROM players p JOIN teams t ON p.team_id = t.id
\* WHERE p.id = $1 AND p.user_id = $2; rows[0] || null
Player_findById(T, P, id, userId) ==
  LET hit == {p \in P : p.id = id /\ p.user_id = userId /\ TeamOf(T, p) # {}}
      p == CHOOSE x \in hit : TRUE
      t == CHOOSE x \in TeamOf(T, p) : TRUE
  IN IF hit = {} THEN NULL
     ELSE Some([id |-> p.id, player_name |-> p.player_name,
                position |-> p.position, jersey_number |-> p.jersey_number,
                team_id |-> p.team_id, team_name |-> t.team_name,
                team_color |-> t.team_color])

\* UPDATE players SET player_name, position, jersey_number, team_id = teamId || null
\* WHERE id = $5 AND user_id = $6; rowCount > 0.  The foreign key is checked
\* for the rows the statement writes.
Player_update(T, P, id, playerName, position, jerseyNumber, teamId, userId) ==
  LET hit == {p \in P : p.id = id /\ p.user_id = userId}
      fk == hit = {} \/ FkTeamOk(T, OrNull(teamId))
  IN [threw |-> ~fk, ok |-> fk /\ hit # {},
      players |-> IF ~fk THEN P
                  ELSE { IF p \in hit
                           THEN [p EXCEPT !.player_name = playerName,
                                          !.position = position,
                                          !.jersey_number = jerseyNumber,
                                          !.team_id = OrNull(teamId)]
                           ELSE p : p \in P }]

\* UPDATE players SET team_id = $1 WHERE id = $2 AND user_id = $3; rowCount > 0
Player_assignToTeam(T, P, playerId, teamId, userId) ==
  LET hit == {p \in P : p.id = playerId /\ p.user_id = userId}
      fk == hit = {} \/ FkTeamOk(T, teamId)
  IN [threw |-> ~fk, ok |-> fk /\ hit # {},
      players |-> IF ~fk THEN P
                  ELSE { IF p \in hit THEN [p EXCEPT !.team_id = teamId] ELSE p
                         : p \in P }]

\* the same UPDATE restricted to rows WHERE team_id IS NOT NULL
Player_unassignOnlyAssigned(P, playerId, userId) ==
  LET hit == {p \in P : p.id = playerId /\ p.user_id = userId /\ p.team_id # NULL}
  IN [ok |-> hit # {},
      players |-> { IF p \in hit THEN [p EXCEPT !.team_id = NULL] ELSE p
                    : p \in P }]

\* UPDATE players SET team_id = NULL WHERE id = $1 AND user_id = $2; rowCount > 0
Player_unassignFromTeam(P, playerId, userId) ==
  LET hit == {p \in P : p.id = playerId /\ p.user_id = userId}
  IN [ok |-> hit # {},
      players |-> { IF p \in hit THEN [p EXCEPT !.team_id = NULL] ELSE p
                    : p \in P }]

\* DELETE FROM players WHERE id = $1, the user_id filter forgotten
Player_deleteAnyOwner(P, id, userId) ==
  LET hit == {p \in P : p.id = id}
  IN [ok |-> hit # {}, players |-> P \ hit]

\* DELETE FROM players WHERE id = $1 AND user_id = $2; rowCount > 0
Player_delete(P, id, userId) ==
  LET hit == {p \in P : p.id = id /\ p.user_id = userId}
  IN [ok |-> hit # {}, players |-> P \ hit]

\* ------------------------------------------------------------------
\* State

VARIABLES
  teams,      \* rows of the teams table
  players,    \* rows of the players table
  teamSeq,    \* last value of teams_id_seq
  playerSeq,  \* last value of players_id_seq
  req,        \* the request handled last: handler, req.user.id, req.params.id, req.body
  res,        \* the response it got: status, success, data
  before,     \* history: the database as that request found it
  pending,    \* the handlers that wait for the result of a query, by slot
  boot        \* the process and its start-up: initializeApp, the schema

vars == <<teams, players, teamSeq, playerSeq, req, res, before, pending, boot>>

DB == [teams |-> teams, players |-> players, teamSeq |-> teamSeq,
       playerSeq |-> playerSeq]

\* res.status(status).json({ success, data })
Json(status, data) == [status |-> status, success |-> status < 400, data |-> data]

\* ------------------------------------------------------------------
\* Team controller

getAllTeams(db, userId, rows) == [res |-> Json(200, rows), db |-> db]

getTeamById(db, id, userId) ==
  LET team == Team_findByIdWithPlayerCount(db.teams, db.players, id, userId)
  IN IF team = NULL THEN [res |-> Json(404, NULL), db |-> db]
     ELSE [res |-> Json(200, team), db |-> db]

\* Team.getTeamHierarchy: { ...team, players: playersResult.rows } or null
Team_getTeamHierarchy(T, teamId, userId, rows) ==
  LET team == Team_findById(T, teamId, userId)
  IN IF team = NULL THEN NULL
     ELSE Some([id |-> team[1].id, team_name |-> team[1].team_name,
                team_logo |-> team[1].team_logo,
                team_color |-> team[1].team_color,
                description |-> team[1].description, players |-> rows])

getTeamHierarchy(db, id, userId, rows) ==
  LET teamHierarchy == Team_getTeamHierarchy(db.teams, id, userId, rows)
  IN IF teamHierarchy = NULL THEN [res |-> Json(404, NULL), db |-> db]
     ELSE [res |-> Json(200, teamHierarchy), db |-> db]

cleanTeamLogo(body) ==
  IF TruthyStr(body.team_logo) THEN trim(body.team_logo[1]) ELSE DefaultTeamLogo

cleanTeamColor(body) ==
  IF TruthyStr(body.team_color) THEN body.team_color[1] ELSE DefaultTeamColor

cleanDescription(body) ==
  IF TruthyStr(body.description) THEN trim(body.description[1]) ELSE <<>>

createTeam(db, body, userId) ==
  IF ~TruthyStr(body.team_name) THEN [res |-> Json(400, NULL), db |-> db]
  ELSE IF Len(trim(body.team_name[1])) = 0 THEN [res |-> Json(400, NULL), db |-> db]
  ELSE LET c == Team_create(db.teams, db.teamSeq, trim(body.team_name[1]),
                            cleanTeamLogo(body), cleanTeamColor(body),
                            cleanDescription(body), userId)
       IN [res |-> Json(201, Some(c.row)),
           db |-> [db EXCEPT !.teams = c.teams, !.teamSeq = c.teamSeq]]

updateTeam(db, id, body, userId) ==
  IF ~TruthyStr(body.team_name) THEN [res |-> Json(400, NULL), db |-> db]
  ELSE IF Len(trim(body.team_name[1])) = 0 THEN [res |-> Json(400, NULL), db |-> db]
  ELSE LET u == Team_update(db.teams, id, trim(body.team_name[1]),
                            cleanTeamLogo(body), cleanTeamColor(body),
                            cleanDescription(body), userId)
       IN IF ~u.ok THEN [res |-> Json(404, NULL), db |-> db]
          ELSE [res |-> Json(200, Team_findById(u.teams, id, userId)),
                db |-> [db EXCEPT !.teams = u.teams]]

deleteTeam(db, id, userId) ==
  LET d == Team_delete(db.teams, db.players, id, userId)
  IN IF ~d.ok THEN [res |-> Json(404, NULL), db |-> db]
     ELSE [res |-> Json(200, NULL),
           db |-> [db EXCEPT !.teams = d.teams, !.players = d.players]]

\* ------------------------------------------------------------------
\* Player controller

getAllPlayers(db, userId, rows) == [res |-> Json(200, rows), db |-> db]

getGlobalPlayers(db, userId, rows) == [res |-> Json(200, rows), db |-> db]

getPlayerById(db, id, userId) ==
  LET player == Player_findById(db.teams, db.players, id, userId)
  IN IF player = NULL THEN [res |-> Json(404, NULL), db |-> db]
     ELSE [res |-> Json(200, player), db |-> db]

\* searchPlayers: rows is the result of Player.search(q.trim(), req.user.id)
searchPlayers(db, q, userId, rows) ==
  IF ~TruthyStr(q) THEN [res |-> Json(400, NULL), db |-> db]
  ELSE IF Len(trim(q[1])) = 0 THEN [res |-> Json(400, NULL), db |-> db]
  ELSE [res |-> Json(200, rows), db |-> db]

cleanPosition(body) ==
  IF TruthyStr(body.position) THEN Some(trim(body.position[1])) ELSE NULL

cleanJerseyNumber(body) == OrNull(body.jersey_number)

createPlayer(db, body, userId) ==
  IF ~TruthyStr(body.player_name) THEN [res |-> Json(400, NULL), db |-> db]
  ELSE IF Len(trim(body.player_name[1])) = 0 THEN [res |-> Json(400, NULL), db |-> db]
  ELSE LET c == Player_create(db.teams, db.players, db.playerSeq,
                              trim(body.player_name[1]), cleanPosition(body),
                              cleanJerseyNumber(body), OrNull(body.team_id), userId)
       IN IF c.threw
            THEN [res |-> Json(500, NULL), db |-> [db EXCEPT !.playerSeq = c.playerSeq]]
            ELSE [res |-> Json(201, Some(c.row)),
                  db |-> [db EXCEPT !.players = c.players, !.playerSeq = c.playerSeq]]

updatePlayer(db, id, body, userId) ==
  IF ~TruthyStr(body.player_name) THEN [res |-> Json(400, NULL), db |-> db]
  ELSE IF Len(trim(body.player_name[1])) = 0 THEN [res |-> Json(400, NULL), db |-> db]
  ELSE LET u == Player_update(db.teams, db.players, id, trim(body.player_name[1]),
                              cleanPosition(body), cleanJerseyNumber(body),
                              OrNull(body.team_id), userId)
       IN IF u.threw THEN [res |-> Json(500, NULL), db |-> db]
          ELSE IF ~u.ok THEN [res |-> Json(404, NULL), db |-> db]
          ELSE [res |-> Json(200, Player_findById(db.teams, u.players, id, userId)),
                db |-> [db EXCEPT !.players = u.players]]

assignPlayerToTeam(db, id, body, userId) ==
  IF ~TruthyNum(body.team_id) THEN [res |-> Json(400, NULL), db |-> db]
  ELSE LET a == Player_assignToTeam(db.teams, db.players, id, body.team_id, userId)
       IN IF a.threw THEN [res |-> Json(500, NULL), db |-> db]
          ELSE IF ~a.ok THEN [res |-> Json(404, NULL), db |-> db]
          ELSE [res |-> Json(200, Player_findById(db.teams, a.players, id, userId)),
                db |-> [db EXCEPT !.players = a.players]]

unassignPlayerFromTeam(db, id, userId) ==
  LET u == Player_unassignFromTeam(db.players, id, userId)
  IN IF ~u.ok THEN [res |-> Json(404, NULL), db |-> db]
     ELSE [res |-> Json(200, NULL), db |-> [db EXCEPT !.players = u.players]]

deletePlayer(db, id, userId) ==
  LET d == Player_delete(db.players, id, userId)
  IN IF ~d.ok THEN [res |-> Json(404, NULL), db |-> db]
     ELSE [res |-> Json(200, NULL), db |-> [db EXCEPT !.players = d.players]]

\* ------------------------------------------------------------------
\* Requests

TeamIds == 1..MaxTeams
PlayerIds == 1..MaxPlayers

\* req.body of POST /api/teams and PUT /api/teams/:id
TeamBodies ==
  { [team_name |-> NULL, team_logo |-> NULL, team_color |-> NULL,
     description |-> NULL],
    [team_name |-> Some(<<" ">>), team_logo |-> NULL, team_color |-> NULL,
     description |-> NULL],
    [team_name |-> Some(<<"a">>), team_logo |-> NULL, team_color |-> NULL,
     description |-> NULL],
    [team_name |-> Some(<<" ", "b">>), team_logo |-> Some(<<"L", " ">>),
     team_color |-> Some(<<"#", "f">>), description |-> Some(<<" ", "d">>)] }

\* team_id of a request body: absent, 0, or an id the teams sequence can give
TeamIdInputs == {NULL} \cup {Some(i) : i \in 0..MaxTeams}

\* req.body of POST /api/players and PUT /api/players/:id
PlayerBodies ==
  { [player_name |-> NULL, position |-> NULL, jersey_number |-> NULL,
     team_id |-> NULL],
    [player_name |-> Some(<<" ">>), position |-> NULL, jersey_number |-> NULL,
     team_id |-> NULL] }
  \cup
  { [player_name |-> Some(<<"a">>), position |-> NULL, jersey_number |-> NULL,
     team_id |-> t] : t \in TeamIdInputs }
  \cup
  { [player_name |-> Some(<<"a">>), position |-> NULL,
     jersey_number |-> Some(0), team_id |-> t] : t \in TeamIdInputs }
  \cup
  { [player_name |-> Some(<<" ", "b">>), position |-> Some(<<" ", "f">>),
     jersey_number |-> Some(7), team_id |-> t] : t \in TeamIdInputs }

\* req.body of PUT /api/players/:id/assign
AssignBodies == { [team_id |-> t] : t \in TeamIdInputs }

Request(op, userId, id, body) == [op |-> op, user |-> userId, id |-> id, body |-> body]

\* authenticateToken has called next(): the handler starts on request r
Receive(r) ==
  /\ req' = r
  /\ before' = DB
  /\ UNCHANGED pending

\* the handler has run to its response
Reply(out) ==
  /\ out.db.teamSeq \in {teamSeq} \cup 0..MaxTeams
  /\ out.db.playerSeq \in {playerSeq} \cup 0..MaxPlayers
  /\ res' = out.res
  /\ teams' = out.db.teams
  /\ players' = out.db.players
  /\ teamSeq' = out.db.teamSeq
  /\ playerSeq' = out.db.playerSeq
  /\ UNCHANGED boot

\* ------------------------------------------------------------------
\* Start-up: initializeDatabase and initializeApp

\* the tables and indexes initializeDatabase creates
Objects ==
  {"users", "teams", "players", "idx_players_user_id", "idx_players_team_id",
   "idx_teams_user_id"}

\* the statements of initializeDatabase, in the order it awaits them
Statements ==
  <<"BEGIN", "users", "teams", "players", "idx_players_user_id",
    "idx_players_team_id", "idx_teams_user_id", "COMMIT">>

\* The process at the moment its module has been loaded: initializeApp has
\* been called and waits for pool.connect(); the store has the objects of
\* schema0 and userCount users.
Booting(schema0, userCount) ==
  [pc |-> "connect", stmt |-> 1, schema0 |-> schema0, schema |-> schema0,
   created |-> {}, failed |-> NULL, threw |-> FALSE, exit |-> NULL,
   userCount |-> userCount, acceptedAt |-> NULL]

\* The statement b.stmt has succeeded in the transaction: CREATE ... IF NOT
\* EXISTS makes what the store does not have; the objects it makes are the
\* transaction's own until COMMIT.
StatementDone(b) ==
  LET st == Statements[b.stmt]
  IN IF st = "BEGIN" THEN [b EXCEPT !.stmt = b.stmt + 1]
     ELSE IF st = "COMMIT"
       THEN [b EXCEPT !.schema = b.schema \cup b.created, !.created = {},
                      !.pc = "count"]
     ELSE [b EXCEPT !.created = b.created \cup ({st} \ b.schema),
                    !.stmt = b.stmt + 1]

\* the statement b.stmt has failed: the catch block is entered
StatementFailed(b) ==
  [b EXCEPT !.failed = Some(Statements[b.stmt]), !.pc = "rollback"]

\* a store where each statement commits by itself and ROLLBACK undoes nothing
RolledBackNothing(b) == [b EXCEPT !.schema = b.schema \cup b.created, !.created = {}]

\* ROLLBACK (or the loss of the connection that has the transaction open):
\* what the transaction made is discarded
RolledBack(b) == [b EXCEPT !.created = {}]

\* initializeApp's catch block: process.exit(1)
initializeAppCatch(b) == [b EXCEPT !.pc = "exited", !.exit = Some(1)]

\* the process after a start-up without error on an empty store
Started ==
  [Booting({}, 0) EXCEPT !.pc = "done", !.stmt = Len(Statements),
                         !.schema = Objects, !.userCount = 1]

\* ------------------------------------------------------------------
\* The server after initializeApp: both tables empty, nothing handled yet

Slots == 1..MaxInFlight

Init ==
  /\ boot = Started
  /\ pending = [s \in Slots |-> NULL]
  /\ teams = {}
  /\ players = {}
  /\ teamSeq = 0
  /\ playerSeq = 0
  /\ req = Request("none", 0, NULL, NULL)
  /\ res = Json(0, NULL)
  /\ before = [teams |-> {}, players |-> {}, teamSeq |-> 0, playerSeq |-> 0]

\* GET /api/teams
GetAllTeams ==
  \E u \in Users : \E rows \in Team_findAllWithPlayerCounts(teams, players, u) :
    /\ Receive(Request("getAllTeams", u, NULL, NULL))
    /\ Reply(getAllTeams(DB, u, rows))

\* GET /api/teams/:id
GetTeamById ==
  \E u \in Users, id \in TeamIds :
    /\ Receive(Request("getTeamById", u, Some(id), NULL))
    /\ Reply(getTeamById(DB, id, u))

\* GET /api/teams/:id/hierarchy
GetTeamHierarchy ==
  \E u \in Users, id \in TeamIds : \E rows \in Team_hierarchyPlayers(players, id, u) :
    /\ Receive(Request("getTeamHierarchy", u, Some(id), NULL))
    /\ Reply(getTeamHierarchy(DB, id, u, rows))

\* POST /api/teams
CreateTeam ==
  \E u \in Users, b \in TeamBodies :
    /\ Receive(Request("createTeam", u, NULL, b))
    /\ Reply(createTeam(DB, b, u))

\* PUT /api/teams/:id
UpdateTeam ==
  \E u \in Users, id \in TeamIds, b \in TeamBodies :
    /\ Receive(Request("updateTeam", u, Some(id), b))
    /\ Reply(updateTeam(DB, id, b, u))

\* DELETE /api/teams/:id
DeleteTeam ==
  \E u \in Users, id \in TeamIds :
    /\ Receive(Request("deleteTeam", u, Some(id), NULL))
    /\ Reply(deleteTeam(DB, id, u))

\* GET /api/players
GetAllPlayers ==
  \E u \in Users : \E rows \in Player_findAllByUserId(teams, players, u) :
    /\ Receive(Request("getAllPlayers", u, NULL, NULL))
    /\ Reply(getAllPlayers(DB, u, rows))

\* GET /api/players/global
GetGlobalPlayers ==
  \E u \in Users : \E rows \in Player_findGlobalPlayers(players, u) :
    /\ Receive(Request("getGlobalPlayers", u, NULL, NULL))
    /\ Reply(getGlobalPlayers(DB, u, rows))

\* GET /api/players/:id
GetPlayerById ==
  \E u \in Users, id \in PlayerIds :
    /\ Receive(Request("getPlayerById", u, Some(id), NULL))
    /\ Reply(getPlayerById(DB, id, u))

\* POST /api/players
CreatePlayer ==
  \E u \in Users, b \in PlayerBodies :
    /\ Receive(Request("createPlayer", u, NULL, b))
    /\ Reply(createPlayer(DB, b, u))

\* PUT /api/players/:id
UpdatePlayer ==
  \E u \in Users, id \in PlayerIds, b \in PlayerBodies :
    /\ Receive(Request("updatePlayer", u, Some(id), b))
    /\ Reply(updatePlayer(DB, id, b, u))

\* PUT /api/players/:id/assign
AssignPlayerToTeam ==
  \E u \in Users, id \in PlayerIds, b \in AssignBodies :
    /\ Receive(Request("assignPlayerToTeam", u, Some(id), b))
    /\ Reply(assignPlayerToTeam(DB, id, b, u))

\* PUT /api/players/:id/unassign
UnassignPlayerFromTeam ==
  \E u \in Users, id \in PlayerIds :
    /\ Receive(Request("unassignPlayerFromTeam", u, Some(id), NULL))
    /\ Reply(unassignPlayerFromTeam(DB, id, u))

\* DELETE /api/players/:id
DeletePlayer ==
  \E u \in Users, id \in PlayerIds :
    /\ Receive(Request("deletePlayer", u, Some(id), NULL))
    /\ Reply(deletePlayer(DB, id, u))

Next ==
  \/ GetAllTeams
  \/ GetTeamById
  \/ GetTeamHierarchy
  \/ CreateTeam
  \/ UpdateTeam
  \/ DeleteTeam
  \/ GetAllPlayers
  \/ GetGlobalPlayers
  \/ GetPlayerById
  \/ CreatePlayer
  \/ UpdatePlayer
  \/ AssignPlayerToTeam
  \/ UnassignPlayerFromTeam
  \/ DeletePlayer

Spec == Init /\ [][Next]_vars

\* ------------------------------------------------------------------
\* Handlers that overlap.  A handler runs without interruption up to an
\* `await query(...)`; the statement then runs in the store, one statement at
\* a time (each is its own transaction: query() is pool.query), and the
\* handler goes on when its result is back.  Between its arrival and its
\* statement, and between its two statements, any other handler may run.

\* the handlers that run a second statement after a first that succeeded
TwoStatements == {"updateTeam", "updatePlayer", "assignPlayerToTeam", "getTeamHierarchy"}

\* The handler of request r from its first line to the result of its first
\* statement on the database db: the response it has ready and the database
\* it leaves.  (For a handler of TwoStatements that got 200, the data is
\* fetched by the second statement; getTeamHierarchy holds the team row.)
FirstStatement(db, r) ==
  CASE r.op = "createTeam" -> createTeam(db, r.body, r.user)
    [] r.op = "updateTeam" -> updateTeam(db, r.id[1], r.body, r.user)
    [] r.op = "deleteTeam" -> deleteTeam(db, r.id[1], r.user)
    [] r.op = "getTeamHierarchy" -> getTeamHierarchy(db, r.id[1], r.user, <<>>)
    [] r.op = "createPlayer" -> createPlayer(db, r.body, r.user)
    [] r.op = "updatePlayer" -> updatePlayer(db, r.id[1], r.body, r.user)
    [] r.op = "assignPlayerToTeam" -> assignPlayerToTeam(db, r.id[1], r.body, r.user)
    [] r.op = "unassignPlayerFromTeam" -> unassignPlayerFromTeam(db, r.id[1], r.user)
    [] r.op = "deletePlayer" -> deletePlayer(db, r.id[1], r.user)

\* The responses the handler of r, holding `held` from its first statement,
\* may send after its second statement on the database db.
SecondStatement(db, r, held) ==
  CASE r.op = "updateTeam" ->
         { Json(200, Team_findById(db.teams, r.id[1], r.user)) }
    [] r.op \in {"updatePlayer", "assignPlayerToTeam"} ->
         { Json(200, Player_findById(db.teams, db.players, r.id[1], r.user)) }
    [] r.op = "getTeamHierarchy" ->
         { Json(200, Some([held[1] EXCEPT !.players = rows])) :
             rows \in Team_hierarchyPlayers(db.players, r.id[1], r.user) }

\* The requests whose handlers overlap: those that write, and
\* getTeamHierarchy, all of one user (handlers of different users overlap in
\* Spec already, where each runs between two others).
OverlapUsers == {1}

OverlapTeamBodies ==
  { b \in TeamBodies : TruthyStr(b.team_name) /\ trim(b.team_name[1]) # <<>> }

OverlapPlayerBodies ==
  { b \in PlayerBodies :
      /\ TruthyStr(b.player_name) /\ trim(b.player_name[1]) # <<>>
      /\ b.jersey_number = NULL }

OverlapRequests ==
  { Request("createTeam", u, NULL, b) :
      u \in OverlapUsers, b \in {x \in OverlapTeamBodies : x.team_logo = NULL} }
  \cup { Request("updateTeam", u, Some(id), b) :
           u \in OverlapUsers, id \in TeamIds,
           b \in {x \in OverlapTeamBodies : x.team_logo # NULL} }
  \cup { Request(op, u, Some(id), NULL) :
           op \in {"deleteTeam", "getTeamHierarchy"}, u \in OverlapUsers, id \in TeamIds }
  \cup { Request("createPlayer", u, NULL, b) :
           u \in OverlapUsers, b \in OverlapPlayerBodies }
  \cup { Request("updatePlayer", u, Some(id), b) :
           u \in OverlapUsers, id \in PlayerIds, b \in OverlapPlayerBodies }
  \cup { Request("assignPlayerToTeam", u, Some(id), b) :
           u \in OverlapUsers, id \in PlayerIds, b \in AssignBodies }
  \cup { Request(op, u, Some(id), NULL) :
           op \in {"unassignPlayerFromTeam", "deletePlayer"},
           u \in OverlapUsers, id \in PlayerIds }

\* a handler that waits: its request, the statement it waits for, what it holds
\* `seen` is no state of the program: for a getTeamHierarchy that waits for its
\* players query, the player rows the team has had, in the states since the
\* team lookup in which the team is there as the handler holds it
Waiting(r, stmt, held, seen) ==
  Some([req |-> r, stmt |-> stmt, held |-> held, seen |-> seen])

\* the player rows Team.getTeamHierarchy's players query selects on db
HierarchyRows(db, teamId, userId) ==
  { PlayerColumns(p) :
      p \in {q \in db.players : q.team_id = Some(teamId) /\ q.user_id = userId} }

\* the waiting handler w after the store has become db
Observed(w, db) ==
  IF w = NULL \/ w[1].stmt # 2 \/ w[1].req.op # "getTeamHierarchy" THEN w
  ELSE IF Team_getTeamHierarchy(db.teams, w[1].req.id[1], w[1].req.user, <<>>) # w[1].held
    THEN w
  ELSE Waiting(w[1].req, 2, w[1].held,
               w[1].seen \cup {HierarchyRows(db, w[1].req.id[1], w[1].req.user)})

\* A request arrives and takes the first free slot.  Its handler validates the
\* body (a 400 is sent at once) and sends its first statement.
Arrive ==
  \E s \in Slots : \E r \in OverlapRequests :
    /\ pending[s] = NULL
    /\ \A x \in 1..(s - 1) : pending[x] # NULL
    /\ IF FirstStatement(DB, r).res.status = 400
         THEN /\ req' = r
              /\ res' = FirstStatement(DB, r).res
              /\ before' = DB
              /\ UNCHANGED pending
         ELSE /\ pending' = [pending EXCEPT ![s] = Waiting(r, 1, NULL, {})]
              /\ UNCHANGED <<req, res, before>>
    /\ UNCHANGED <<teams, players, teamSeq, playerSeq, boot>>

\* The first statement of a waiting handler runs.  The handler responds, or
\* sends its second statement.
RunFirst ==
  \E s \in Slots :
    /\ pending[s] # NULL
    /\ pending[s][1].stmt = 1
    /\ LET r == pending[s][1].req
           out == FirstStatement(DB, r)
           again == r.op \in TwoStatements /\ out.res.status = 200
       IN /\ req' = r
          /\ before' = DB
          /\ pending' = [x \in Slots |->
                           IF x # s THEN Observed(pending[x], out.db)
                           ELSE IF again
                             THEN Observed(Waiting(r, 2, out.res.data, {}), out.db)
                           ELSE NULL]
          /\ Reply([res |-> IF again THEN Json(0, NULL) ELSE out.res, db |-> out.db])

\* The second statement of a waiting handler runs, and the handler responds.
RunSecond ==
  \E s \in Slots :
    /\ pending[s] # NULL
    /\ pending[s][1].stmt = 2
    /\ \E out \in SecondStatement(DB, pending[s][1].req, pending[s][1].held) :
         /\ req' = pending[s][1].req
         /\ before' = DB
         /\ pending' = [pending EXCEPT ![s] = NULL]
         /\ Reply([res |-> out, db |-> DB])

NextOverlap ==
  \/ Arrive
  \/ RunFirst
  \/ RunSecond

SpecOverlap == Init /\ [][NextOverlap]_vars

\* ------------------------------------------------------------------
\* The list queries on tables of several rows.  The tables are any that the
\* handlers above can have left: two teams, three players, every team id of a
\* player that of a team; the requests are the reads.

\* the number of players listed
MaxListed == 3

\* req.query.q of GET /api/players/search
SearchQueries ==
  { NULL, Some(<<>>), Some(<<" ">>), Some(<<"a">>), Some(<<" ", "B", " ">>),
    Some(<<"a", "b">>), Some(<<"_">>), Some(<<"%">>) }

\* the rows Player.search returns for q, none when q is rejected
searchRows(db, q, userId) ==
  IF TruthyStr(q) /\ Len(trim(q[1])) # 0
    THEN Player_search(db.teams, db.players, trim(q[1]), userId)
    ELSE {<<>>}

\* GET /api/players/search?q=
SearchPlayers ==
  \E u \in Users, q \in SearchQueries : \E rows \in searchRows(DB, q, u) :
    /\ Receive(Request("searchPlayers", u, NULL, [q |-> q]))
    /\ Reply(searchPlayers(DB, q, u, rows))

\* a teams row as createTeam leaves it
ListedTeam(id, teamName, userId) ==
  [id |-> id, team_name |-> teamName, team_logo |-> DefaultTeamLogo,
   team_color |-> DefaultTeamColor, description |-> <<>>, user_id |-> userId]

\* a players row as createPlayer leaves it
ListedPlayer(id, c) ==
  [id |-> id, player_name |-> c.player_name, position |-> c.position,
   jersey_number |-> NULL, team_id |-> c.team_id, user_id |-> c.user_id]

\* what the players rows may hold: the last one is a row of either user
ListedPlayerFields(id) ==
  IF id < MaxListed
    THEN [player_name : {<<"a">>, <<"a", "b">>},
          position : {NULL, Some(<<"f">>)} \cup {Some(<<"d">>) : x \in {id} \ {1}},
          team_id : {NULL, Some(1), Some(2)}, user_id : {1}]
    ELSE [player_name : {<<"a">>}, position : {NULL},
          team_id : {NULL, Some(1), Some(2)}, user_id : Users]

InitLists ==
  /\ \E n \in {<<"a">>, <<"b">>} :
       teams = {ListedTeam(1, <<"a">>, 1), ListedTeam(2, n, 1)}
  /\ \E c \in [1..MaxListed -> UNION {ListedPlayerFields(id) : id \in 1..MaxListed}] :
       /\ \A id \in 1..MaxListed : c[id] \in ListedPlayerFields(id)
       /\ players = {ListedPlayer(id, c[id]) : id \in 1..MaxListed}
  /\ teamSeq = 2
  /\ playerSeq = MaxListed
  /\ req = Request("none", 0, NULL, NULL)
  /\ res = Json(0, NULL)
  /\ before = [teams |-> {}, players |-> {}, teamSeq |-> 0, playerSeq |-> 0]
  /\ pending = [s \in Slots |-> NULL]
  /\ boot = Started

NextLists ==
  \/ GetTeamHierarchy
  \/ GetAllPlayers
  \/ SearchPlayers

SpecLists == InitLists /\ [][NextLists]_vars

\* ------------------------------------------------------------------
\* The routes behind authenticateToken.  A request is what the client sends:
\* the Authorization header as its parts between spaces, the route, the id of
\* the path, the body or query, and an owner id the client may have put into
\* the body or query (user_id).

\* The tokens a client may send: the payload's id, and whether jwt.verify
\* accepts the token (signed with JWT_SECRET and not expired).
Tokens == [id : Users, verifies : BOOLEAN]

AuthorizationHeaders ==
  {NULL, Some(<<"Bearer">>)}
  \cup { Some(<<"Bearer", t>>) : t \in {x \in Tokens : x.verifies \/ x.id = 1} }

\* authHeader && authHeader.split(' ')[1]
TokenOf(authorization) ==
  IF authorization # NULL /\ Len(authorization[1]) >= 2
    THEN Some(authorization[1][2])
    ELSE NULL

\* authenticateToken: the response it sends, or next() with req.user
authenticateToken(authorization) ==
  LET token == TokenOf(authorization)
  IN IF token = NULL THEN [next |-> FALSE, res |-> Json(401, NULL), user |-> NULL]
     ELSE IF ~token[1].verifies
       THEN [next |-> FALSE, res |-> Json(403, NULL), user |-> NULL]
     ELSE [next |-> TRUE, res |-> Json(0, NULL), user |-> Some([id |-> token[1].id])]

\* a handler that takes the owner id from the body or query when one is there
OwnerIdFromClient(user, claimed) == IF claimed # NULL THEN claimed[1] ELSE user[1].id

\* req.user.id, the owner id every handler passes to its model methods
OwnerId(user, claimed) == user[1].id

\* The outcomes of the handler of request r on the database db, the handler
\* run from its first line to its response.
Handle(db, r) ==
  CASE r.op = "getAllTeams" ->
         { getAllTeams(db, r.user, rows) :
             rows \in Team_findAllWithPlayerCounts(db.teams, db.players, r.user) }
    [] r.op = "getTeamById" -> { getTeamById(db, r.id[1], r.user) }
    [] r.op = "getTeamHierarchy" ->
         { getTeamHierarchy(db, r.id[1], r.user, rows) :
             rows \in Team_hierarchyPlayers(db.players, r.id[1], r.user) }
    [] r.op = "getAllPlayers" ->
         { getAllPlayers(db, r.user, rows) :
             rows \in Player_findAllByUserId(db.teams, db.players, r.user) }
    [] r.op = "getGlobalPlayers" ->
         { getGlobalPlayers(db, r.user, rows) :
             rows \in Player_findGlobalPlayers(db.players, r.user) }
    [] r.op = "searchPlayers" ->
         { searchPlayers(db, r.body.q, r.user, rows) :
             rows \in searchRows(db, r.body.q, r.user) }
    [] r.op = "getPlayerById" -> { getPlayerById(db, r.id[1], r.user) }
    [] OTHER -> { FirstStatement(db, r) }

\* the routes with what the client sends to them, but for the header: every
\* route, those with an id on team 1 or player 1
Routes ==
  { [op |-> op, id |-> NULL, body |-> NULL] :
      op \in {"getAllTeams", "getAllPlayers", "getGlobalPlayers"} }
  \cup { [op |-> op, id |-> Some(1), body |-> NULL] :
           op \in {"getTeamById", "getTeamHierarchy", "deleteTeam", "getPlayerById",
                   "unassignPlayerFromTeam", "deletePlayer"} }
  \cup { [op |-> "createTeam", id |-> NULL, body |-> b] :
           b \in {x \in OverlapTeamBodies : x.team_logo = NULL} }
  \cup { [op |-> "updateTeam", id |-> Some(1), body |-> b] :
           b \in {x \in OverlapTeamBodies : x.team_logo # NULL} }
  \cup { [op |-> "createPlayer", id |-> NULL, body |-> b] :
           b \in {x \in OverlapPlayerBodies : x.team_id \in {NULL, Some(1)}} }
  \cup { [op |-> "updatePlayer", id |-> Some(1), body |-> b] :
           b \in {x \in OverlapPlayerBodies : x.team_id = Some(1)} }
  \cup { [op |-> "assignPlayerToTeam", id |-> Some(1), body |-> b] :
           b \in {x \in AssignBodies : x.team_id = Some(1)} }
  \cup { [op |-> "searchPlayers", id |-> NULL, body |-> [q |-> q]] : q \in {Some(<<"a">>)} }

\* user_id of the body or query: absent, or the id of a user
ClaimedOwners == {NULL, Some(1)}

\* the request as the history keeps it: req.user.id is 0 when next() was not
\* called
Sent(route, userId, authorization, claimed) ==
  [op |-> route.op, user |-> userId, id |-> route.id, body |-> route.body,
   authorization |-> authorization, claimed |-> claimed]

\* authenticateToken answers 401 or 403; no handler runs
Refused ==
  \E route \in Routes, a \in AuthorizationHeaders, claimed \in ClaimedOwners :
    /\ ~authenticateToken(a).next
    /\ Receive(Sent(route, 0, a, claimed))
    /\ Reply([res |-> authenticateToken(a).res, db |-> DB])

\* authenticateToken calls next(); the handler of the route runs
Authenticated ==
  \E route \in Routes, a \in AuthorizationHeaders, claimed \in ClaimedOwners :
    /\ authenticateToken(a).next
    /\ LET r == Sent(route, OwnerId(authenticateToken(a).user, claimed), a, claimed)
       IN \E out \in Handle(DB, r) :
            /\ Receive(r)
            /\ Reply(out)

NextAuth ==
  \/ Refused
  \/ Authenticated

SpecAuth == Init /\ [][NextAuth]_vars

\* ------------------------------------------------------------------
\* The process from the load of server.js on.  initializeApp() is called and
\* not awaited, the routes are mounted and app.listen() is called; from then
\* on the steps of initializeApp and the requests that arrive interleave.

\* The stores a start-up may find: an index only with its table, teams only
\* with users, players only with teams; users only in a users table.
StoresFound ==
  { Booting(S, n) : S \in { X \in SUBSET Objects :
                              /\ "teams" \in X => "users" \in X
                              /\ "players" \in X => "teams" \in X
                              /\ "idx_teams_user_id" \in X => "teams" \in X
                              /\ "idx_players_user_id" \in X => "players" \in X
                              /\ "idx_players_team_id" \in X => "players" \in X },
                    n \in 0..1 }
  \ { Booting(S, 1) : S \in SUBSET (Objects \ {"users"}) }

InitStartup ==
  /\ boot \in StoresFound
  /\ teams = {}
  /\ players = {}
  /\ teamSeq = 0
  /\ playerSeq = 0
  /\ req = Request("none", 0, NULL, NULL)
  /\ res = Json(0, NULL)
  /\ before = [teams |-> {}, players |-> {}, teamSeq |-> 0, playerSeq |-> 0]
  /\ pending = [s \in Slots |-> NULL]

StartupOnly == UNCHANGED <<teams, players, teamSeq, playerSeq, req, res, before, pending>>

\* await pool.connect().  It is outside the try block: its error leaves
\* initializeDatabase as it is and reaches initializeApp's catch.
Connect ==
  /\ boot.pc = "connect"
  /\ \/ boot' = [boot EXCEPT !.pc = "query"]
     \/ boot' = initializeAppCatch([boot EXCEPT !.threw = TRUE])
  /\ StartupOnly

\* await client.query(...) of BEGIN, of a CREATE, of COMMIT: done or failed
Query ==
  /\ boot.pc = "query"
  /\ boot' = StatementDone(boot) \/ boot' = StatementFailed(boot)
  /\ StartupOnly

\* The catch block: await client.query('ROLLBACK'), throw error.  The error
\* (or that of a ROLLBACK that failed) rejects initializeDatabase, and
\* initializeApp's catch runs before any other callback.
Rollback ==
  /\ boot.pc = "rollback"
  /\ boot' = initializeAppCatch([RolledBack(boot) EXCEPT !.threw = TRUE])
  /\ StartupOnly

\* const userCount = await User.count()
CountUsers ==
  /\ boot.pc = "count"
  /\ \/ boot' = [boot EXCEPT !.pc = IF boot.userCount = 0 THEN "create" ELSE "done"]
     \/ boot' = initializeAppCatch(boot)
  /\ StartupOnly

\* await User.create(defaultUsername, defaultPassword)
CreateDefaultUser ==
  /\ boot.pc = "create"
  /\ \/ boot' = [boot EXCEPT !.pc = "done", !.userCount = 1]
     \/ boot' = initializeAppCatch(boot)
  /\ StartupOnly

\* app.listen: the process takes a request whenever it is alive
AcceptRequest ==
  /\ boot.exit = NULL
  /\ boot' = [boot EXCEPT !.acceptedAt = Some(boot.pc)]
  /\ StartupOnly

NextStartup ==
  \/ Connect
  \/ Query
  \/ Rollback
  \/ CountUsers
  \/ CreateDefaultUser
  \/ AcceptRequest

SpecStartup == InitStartup /\ [][NextStartup]_vars

\* ------------------------------------------------------------------
\* migrate.js: the global-players migration, run by a process of its own
\* against the store the server works on.  It holds no transaction: each of its
\* statements commits by itself.  The store has team_id NOT NULL or not, and
\* the constraint players_team_id_fkey with its ON DELETE action, or not.

\* the process of migrate.js at its start, on a store with these two
Migrating(notNull, fk) ==
  [pc |-> "connect", notNull |-> notNull, fk |-> fk, exit |-> NULL]

\* the catch block: process.exit(1); the finally block does not run
runMigrationCatch(m) == [m EXCEPT !.pc = "exited", !.exit = Some(1)]

\* The stores the migration is run on: the schema before global players, the
\* schema initializeDatabase creates now, and the first with team_id nullable.
StoresMigrated ==
  { Migrating(TRUE, Some("CASCADE")), Migrating(FALSE, Some("CASCADE")),
    Migrating(FALSE, Some("SET NULL")) }

InitMigration ==
  /\ boot \in StoresMigrated
  /\ teams = {}
  /\ players = {}
  /\ teamSeq = 0
  /\ playerSeq = 0
  /\ req = Request("none", 0, NULL, NULL)
  /\ res = Json(0, NULL)
  /\ before = [teams |-> {}, players |-> {}, teamSeq |-> 0, playerSeq |-> 0]
  /\ pending = [s \in Slots |-> NULL]

MigrationOnly == UNCHANGED <<teams, players, teamSeq, playerSeq, req, res, before, pending>>

\* await client.connect()
MigrationConnect ==
  /\ boot.pc = "connect"
  /\ boot' = [boot EXCEPT !.pc = "dropNotNull"] \/ boot' = runMigrationCatch(boot)
  /\ MigrationOnly

\* ALTER TABLE players ALTER COLUMN team_id DROP NOT NULL
DropNotNull ==
  /\ boot.pc = "dropNotNull"
  /\ \/ boot' = [boot EXCEPT !.notNull = FALSE, !.pc = "dropConstraint"]
     \/ boot' = runMigrationCatch(boot)
  /\ MigrationOnly

\* ALTER TABLE players DROP CONSTRAINT IF EXISTS players_team_id_fkey
DropConstraint ==
  /\ boot.pc = "dropConstraint"
  /\ \/ boot' = [boot EXCEPT !.fk = NULL, !.pc = "addConstraint"]
     \/ boot' = runMigrationCatch(boot)
  /\ MigrationOnly

\* ALTER TABLE players ADD CONSTRAINT players_team_id_fkey FOREIGN KEY (team_id)
\* REFERENCES teams(id) ON DELETE SET NULL: it validates the rows there are, so
\* it fails when a player references no team; it may fail as any statement.
AddConstraint ==
  /\ boot.pc = "addConstraint"
  /\ \/ /\ {p \in players : ~FkTeamOk(teams, p.team_id)} = {}
        /\ boot' = [boot EXCEPT !.fk = Some("SET NULL"), !.pc = "verify"]
     \/ boot' = runMigrationCatch(boot)
  /\ MigrationOnly

\* the SELECT on information_schema.columns; then finally: client.end()
Verify ==
  /\ boot.pc = "verify"
  /\ \/ boot' = [boot EXCEPT !.pc = "ended", !.exit = Some(0)]
     \/ boot' = runMigrationCatch(boot)
  /\ MigrationOnly

\* createPlayer on a store with constraints m: NOT NULL rejects the row
\* without a team, and without the foreign key the row that it would have
\* rejected is stored.
createPlayerOn(m, db, body, userId) ==
  LET out == createPlayer(db, body, userId)
      c == Player_create(db.teams, db.players, db.playerSeq,
                         trim(body.player_name[1]), cleanPosition(body),
                         cleanJerseyNumber(body), OrNull(body.team_id), userId)
  IN IF out.res.status = 400 THEN out
     ELSE IF m.notNull /\ c.row.team_id = NULL
       THEN [res |-> Json(500, NULL), db |-> [db EXCEPT !.playerSeq = c.playerSeq]]
     ELSE IF m.fk = NULL
       THEN [res |-> Json(201, Some(c.row)),
             db |-> [db EXCEPT !.players = db.players \cup {c.row},
                               !.playerSeq = c.playerSeq]]
     ELSE out

\* deleteTeam on a store with constraints m: the players of the team are
\* deleted (CASCADE), lose their team id (SET NULL), or stay as they are
deleteTeamOn(m, db, id, userId) ==
  LET out == deleteTeam(db, id, userId)
  IN IF out.res.status # 200 THEN out
     ELSE IF m.fk = NULL THEN [out EXCEPT !.db.players = db.players]
     ELSE IF m.fk = Some("CASCADE")
       THEN [out EXCEPT !.db.players = OnDeleteCascade(db.players, {id})]
     ELSE out

\* the requests the server handles while the migration runs and after it
MeanwhileCreateTeam ==
  \E u \in Users, b \in {x \in OverlapTeamBodies : x.team_logo = NULL} :
    /\ Receive(Request("createTeam", u, NULL, b))
    /\ Reply(createTeam(DB, b, u))

MeanwhileCreatePlayer ==
  \E u \in Users, b \in OverlapPlayerBodies :
    /\ Receive(Request("createPlayer", u, NULL, b))
    /\ Reply(createPlayerOn(boot, DB, b, u))

MeanwhileDeleteTeam ==
  \E u \in Users, id \in TeamIds :
    /\ Receive(Request("deleteTeam", u, Some(id), NULL))
    /\ Reply(deleteTeamOn(boot, DB, id, u))

NextMigration ==
  \/ MigrationConnect
  \/ DropNotNull
  \/ DropConstraint
  \/ AddConstraint
  \/ Verify
  \/ MeanwhileCreateTeam
  \/ MeanwhileCreatePlayer
  \/ MeanwhileDeleteTeam

SpecMigration == InitMigration /\ [][NextMigration]_vars

\* ------------------------------------------------------------------
\* Properties

TeamIdOps == {"getTeamById", "getTeamHierarchy", "updateTeam", "deleteTeam"}

PlayerIdOps == {"getPlayerById", "updatePlayer", "assignPlayerToTeam",
                "unassignPlayerFromTeam", "deletePlayer"}

\* the request named a team / player that existed and belonged to another user
OnForeignTeam ==
  req.op \in TeamIdOps /\ \E t \in before.teams : t.id = req.id[1] /\ t.user_id # req.user

OnForeignPlayer ==
  req.op \in PlayerIdOps /\ \E p \in before.players : p.id = req.id[1] /\ p.user_id # req.user

TablesUnchanged == teams = before.teams /\ players = before.players

\* C1: after the owner's delete of team T succeeds, every player that was on T
\* still exists, with team id null, and no player row has been removed.
C1_TeamDeleteKeepsPlayers ==
  (req.op = "deleteTeam" /\ res.status = 200) =>
    \A p \in before.players :
      \E q \in players :
        /\ q.id = p.id
        /\ q.user_id = p.user_id
        /\ p.team_id = req.id => q.team_id = NULL

\* a team with a player on it has just been deleted by its owner
C1_Witness ==
  /\ req.op = "deleteTeam"
  /\ res.status = 200
  /\ \E p \in before.players : p.team_id = req.id

\* C2: every player whose team id is non-null references an existing team
\* owned by the player's own user.
C2_TeamRefSameOwner ==
  \A p \in players :
    p.team_id # NULL =>
      \E t \in teams : t.id = p.team_id[1] /\ t.user_id = p.user_id

\* C3: an id-targeted repository operation that user B invokes on a team or
\* player of another user A reports not-found and changes no row.  (A handler
\* that answers 400 has returned before invoking any repository operation.)
C3_ForeignIdNotFound ==
  ((OnForeignTeam \/ OnForeignPlayer) /\ res.status # 400) =>
    (res.status = 404 /\ TablesUnchanged)

\* both a team operation and a player operation can meet a foreign row
C3_Witness ==
  /\ OnForeignPlayer
  /\ req.op = "deletePlayer"
  /\ res.status = 404
  /\ \E t \in teams : t.user_id = req.user

\* the database without the team row x
WithoutTeam(db, x) == [db EXCEPT !.teams = {t \in db.teams : t.id # x}]

\* the request r takes x as a team id: in its path or in its body
NamesTeam(r, x) ==
  \/ r.op \in TeamIdOps /\ r.id = Some(x)
  \/ /\ r.op \in {"createPlayer", "updatePlayer", "assignPlayerToTeam"}
     /\ r.body.team_id = Some(x)

\* the response the request r gets when the database is db
Outcome(db, r) ==
  CASE r.op = "getTeamById" -> getTeamById(db, r.id[1], r.user).res
    [] r.op = "getTeamHierarchy" ->
         getTeamHierarchy(db, r.id[1], r.user,
           CHOOSE rows \in Team_hierarchyPlayers(db.players, r.id[1], r.user) : TRUE).res
    [] r.op = "updateTeam" -> updateTeam(db, r.id[1], r.body, r.user).res
    [] r.op = "deleteTeam" -> deleteTeam(db, r.id[1], r.user).res
    [] r.op = "createPlayer" -> createPlayer(db, r.body, r.user).res
    [] r.op = "updatePlayer" -> updatePlayer(db, r.id[1], r.body, r.user).res
    [] r.op = "assignPlayerToTeam" -> assignPlayerToTeam(db, r.id[1], r.body, r.user).res

\* C4: what user B gets from an operation that takes the id X of a team B does
\* not own is what B would have got had team X not existed; and the team info
\* B's player list shows is never that of another user's team.
C4_NoExistenceLeak ==
  /\ \A x \in TeamIds :
       ( /\ NamesTeam(req, x)
         /\ \E t \in before.teams : t.id = x /\ t.user_id # req.user
         /\ \A p \in before.players : p.team_id # Some(x) )
       => res = Outcome(WithoutTeam(before, x), req)
  /\ req.op = "getAllPlayers" =>
       \A i \in 1..Len(res.data) :
         res.data[i].team_name # NULL =>
           \E t \in teams : t.id = res.data[i].team_id[1] /\ t.user_id = req.user

\* what a team / player request body asks the stored fields to be
GivenLogo(b) == IF b.team_logo = NULL THEN DefaultTeamLogo ELSE trim(b.team_logo[1])
GivenColor(b) == IF b.team_color = NULL THEN DefaultTeamColor ELSE b.team_color[1]
GivenDescription(b) == IF b.description = NULL THEN <<>> ELSE trim(b.description[1])
GivenPosition(b) == IF b.position = NULL THEN NULL ELSE Some(trim(b.position[1]))

\* a name that is given and has a character other than a space
ValidName(o) == o # NULL /\ \E i \in 1..Len(o[1]) : o[1][i] # " "

\* C5: a valid create of a team or of a player (team id null or a team of the
\* caller) succeeds, and a getById by the same owner right after it returns the
\* record with the fields given at creation.
C5_CreateThenGetById ==
  /\ (req.op = "createTeam" /\ ValidName(req.body.team_name)) =>
       /\ res.status = 201
       /\ LET got == getTeamById(DB, res.data[1].id, req.user).res
          IN /\ got.status = 200
             /\ got.data[1].team_name = trim(req.body.team_name[1])
             /\ got.data[1].team_logo = GivenLogo(req.body)
             /\ got.data[1].team_color = GivenColor(req.body)
             /\ got.data[1].description = GivenDescription(req.body)
  /\ ( /\ req.op = "createPlayer"
       /\ ValidName(req.body.player_name)
       /\ \/ req.body.team_id = NULL
          \/ \E t \in before.teams :
               req.body.team_id = Some(t.id) /\ t.user_id = req.user ) =>
       /\ res.status = 201
       /\ LET got == getPlayerById(DB, res.data[1].id, req.user).res
          IN /\ got.status = 200
             /\ got.data[1].player_name = trim(req.body.player_name[1])
             /\ got.data[1].position = GivenPosition(req.body)
             /\ got.data[1].jersey_number = req.body.jersey_number
             /\ got.data[1].team_id = req.body.team_id

\* the part of C5 that does not involve a global player: a player created on a
\* team of the caller is returned by getById with the fields given
C5_CreateOnTeamThenGetById ==
  ( /\ req.op = "createPlayer"
    /\ ValidName(req.body.player_name)
    /\ \E t \in before.teams : req.body.team_id = Some(t.id) /\ t.user_id = req.user ) =>
    /\ res.status = 201
    /\ LET got == getPlayerById(DB, res.data[1].id, req.user).res
       IN /\ got.status = 200
          /\ got.data[1].jersey_number = req.body.jersey_number

\* C6: Player getById reports not-found for a player of the caller whose team
\* id is null, and returns a player of the caller whose team id is non-null
\* together with its team's name and color.
C6_GetByIdNeedsTeam ==
  req.op = "getPlayerById" =>
    \A p \in players :
      (p.id = req.id[1] /\ p.user_id = req.user) =>
        IF p.team_id = NULL
          THEN res.status = 404 /\ res.data = NULL
          ELSE /\ res.status = 200
               /\ res.data[1].id = p.id
               /\ res.data[1].player_name = p.player_name
               /\ res.data[1].position = p.position
               /\ res.data[1].jersey_number = p.jersey_number
               /\ res.data[1].team_id = p.team_id
               /\ \E t \in teams :
                    /\ t.id = p.team_id[1]
                    /\ res.data[1].team_name = t.team_name
                    /\ res.data[1].team_color = t.team_color

\* the caller has asked for a global player of theirs and got not-found
C6_Witness ==
  /\ req.op = "getPlayerById"
  /\ res.status = 404
  /\ \E p \in players : p.id = req.id[1] /\ p.user_id = req.user /\ p.team_id = NULL

\* the ids of the rows in the sequences `lists`: in all of them, in any of them
InEvery(lists, id) == \A l \in lists : \E i \in 1..Len(l) : l[i].id = id
InSome(lists, id) == \E l \in lists : \E i \in 1..Len(l) : l[i].id = id

\* C7: a player of an owner is in listGlobalByOwner(owner) exactly when its
\* team id is null, and otherwise in listByTeam(T, owner) for exactly one team
\* T; no player is in both a team roster and the global list.
C7_GlobalXorRoster ==
  /\ \A p \in players :
       LET global == Player_findGlobalPlayers(players, p.user_id)
           Roster(T) == Player_findAllByTeamId(players, T, p.user_id)
       IN IF p.team_id = NULL
            THEN /\ InEvery(global, p.id)
                 /\ \A T \in TeamIds : ~InSome(Roster(T), p.id)
            ELSE /\ ~InSome(global, p.id)
                 /\ \E T \in TeamIds :
                      /\ InEvery(Roster(T), p.id)
                      /\ \A T2 \in TeamIds \ {T} : ~InSome(Roster(T2), p.id)
  /\ req.op = "getGlobalPlayers" =>
       {res.data[i].id : i \in 1..Len(res.data)} =
         {p.id : p \in {q \in players : q.user_id = req.user /\ q.team_id = NULL}}

\* a global player has just been put on a team by update or assignToTeam
C7_Witness ==
  /\ req.op \in {"updatePlayer", "assignPlayerToTeam"}
  /\ res.status = 200
  /\ \E p \in before.players, q \in players :
       p.id = q.id /\ p.team_id = NULL /\ q.team_id # NULL

\* C8: for a player P and a team T of the same owner O, assignToTeam(P, T, O)
\* then unassignFromTeam(P, O) leaves P's team id null, and a second
\* unassignFromTeam(P, O) succeeds too and leaves it null.
C8_AssignUnassignIdempotent ==
  /\ \A p \in players, t \in teams :
       p.user_id = t.user_id =>
         LET O == p.user_id
             TeamIdOf(db) == {q.team_id : q \in {x \in db.players : x.id = p.id}}
             s1 == assignPlayerToTeam(DB, p.id, [team_id |-> Some(t.id)], O)
             s2 == unassignPlayerFromTeam(s1.db, p.id, O)
             s3 == unassignPlayerFromTeam(s2.db, p.id, O)
         IN /\ s1.res.status = 200 /\ TeamIdOf(s1.db) = {Some(t.id)}
            /\ s2.res.status = 200 /\ TeamIdOf(s2.db) = {NULL}
            /\ s3.res.status = 200 /\ TeamIdOf(s3.db) = {NULL}
  /\ req.op = "unassignPlayerFromTeam" =>
       \A p \in before.players :
         (p.id = req.id[1] /\ p.user_id = req.user) =>
           res.status = 200 /\ [p EXCEPT !.team_id = NULL] \in players

\* unassignFromTeam has just succeeded on a player that was global already,
\* while its owner has a team to assign it to
C8_Witness ==
  /\ req.op = "unassignPlayerFromTeam"
  /\ res.status = 200
  /\ \E p \in before.players :
       /\ p.id = req.id[1] /\ p.team_id = NULL
       /\ \E t \in teams : t.user_id = p.user_id

\* C9: a create or update of a team or player whose name is missing or empty
\* after trimming gets 400 and writes nothing.
C9_BlankNameRejected ==
  /\ (req.op \in {"createTeam", "updateTeam"} /\ ~ValidName(req.body.team_name)) =>
       res.status = 400 /\ DB = before
  /\ (req.op \in {"createPlayer", "updatePlayer"} /\ ~ValidName(req.body.player_name)) =>
       res.status = 400 /\ DB = before

\* an update of an existing player of the caller with a name of spaces only
C9_Witness ==
  /\ req.op = "updatePlayer"
  /\ req.body.player_name = Some(<<" ">>)
  /\ res.status = 400
  /\ \E p \in players : p.id = req.id[1] /\ p.user_id = req.user

\* the rows with player id `id`
PlayerRows(P, id) == {p \in P : p.id = id}

\* the request handled last was one of `ops` on the player `id`
OnPlayer(ops, id) == req.op \in ops /\ req.id = Some(id)

\* C10, as claimed: create enters Unassigned or Assigned; update and
\* assignToTeam move Unassigned to Assigned or Assigned to Assigned(new);
\* unassignFromTeam and deletion of the referenced team move Assigned to
\* Unassigned; nothing else changes a player's association.
C10_TransitionsAsClaimed ==
  \A id \in PlayerIds :
    LET old == PlayerRows(before.players, id)
        new == PlayerRows(players, id)
    IN /\ (old = {} /\ new # {}) => req.op = "createPlayer"
       /\ (old # {} /\ new = {}) => OnPlayer({"deletePlayer"}, id)
       /\ \A o \in old, n \in new :
            o.team_id # n.team_id =>
              IF n.team_id # NULL
                THEN OnPlayer({"updatePlayer", "assignPlayerToTeam"}, id)
                ELSE \/ OnPlayer({"unassignPlayerFromTeam"}, id)
                     \/ req.op = "deleteTeam" /\ req.id = o.team_id

\* C10, amended: update also moves Assigned to Unassigned (team id null).
C10_Transitions ==
  \A id \in PlayerIds :
    LET old == PlayerRows(before.players, id)
        new == PlayerRows(players, id)
    IN /\ (old = {} /\ new # {}) => req.op = "createPlayer"
       /\ (old # {} /\ new = {}) => OnPlayer({"deletePlayer"}, id)
       /\ \A o \in old, n \in new :
            o.team_id # n.team_id =>
              IF n.team_id # NULL
                THEN OnPlayer({"updatePlayer", "assignPlayerToTeam"}, id)
                ELSE \/ OnPlayer({"unassignPlayerFromTeam", "updatePlayer"}, id)
                     \/ req.op = "deleteTeam" /\ req.id = o.team_id

\* an update with team id null has just made an assigned player global
C10_Witness ==
  /\ req.op = "updatePlayer"
  /\ res.status = 200
  /\ \E o \in before.players, n \in players :
       o.id = n.id /\ o.team_id # NULL /\ n.team_id = NULL

\* the rows of table R that belong to user u
OwnedBy(R, u) == {r \in R : r.user_id = u}

PlayerWrites == {"createPlayer", "updatePlayer", "assignPlayerToTeam"}

\* the team id that statement carries (create and update send team_id || null)
StatementTeamId(r) ==
  IF r.op = "assignPlayerToTeam" THEN r.body.team_id ELSE OrNull(r.body.team_id)

\* every non-null team id of a player is the id of a team row
TeamIdsExist ==
  \A p \in players : p.team_id # NULL => \E t \in teams : t.id = p.team_id[1]

\* the statement that slot s waits for runs in this step, it writes a team id,
\* and no team row has that id
WritesMissingTeam(s) ==
  /\ pending[s] # NULL
  /\ pending'[s] # pending[s]
  /\ pending[s][1].stmt = 1
  /\ pending[s][1].req.op \in PlayerWrites
  /\ StatementTeamId(pending[s][1].req) # NULL
  /\ \A t \in teams : t.id # StatementTeamId(pending[s][1].req)[1]

\* C12: in every reachable state, also while handlers overlap, every non-null
\* player team id is the id of an existing team; and a write whose statement
\* carries a team id that matches no team fails and changes no row.
C12_TeamIdsExist ==
  /\ []TeamIdsExist
  /\ [][\A s \in Slots :
          WritesMissingTeam(s) =>
            /\ req' = pending[s][1].req
            /\ res'.status \in {404, 500}
            /\ teams' = teams
            /\ players' = players]_vars

\* a team has just been deleted while a create, update or assignToTeam that
\* names it waits for its statement, and a player is on another team
C12_Witness ==
  /\ req.op = "deleteTeam"
  /\ res.status = 200
  /\ \E s \in Slots :
       /\ pending[s] # NULL
       /\ pending[s][1].stmt = 1
       /\ pending[s][1].req.op \in PlayerWrites
       /\ StatementTeamId(pending[s][1].req) = req.id
  /\ \E p \in players : p.team_id # NULL

\* C13: listByOwnerWithPlayerCount(owner) returns each team of the owner
\* exactly once, in ascending name order, each with the number of that owner's
\* players on the team, and getByIdWithPlayerCount reports the same count.
C13_TeamListWithCounts ==
  \A u \in Users :
    \A s \in Team_findAllWithPlayerCounts(teams, players, u) :
      /\ Len(s) = Cardinality(OwnedBy(teams, u))
      /\ \A t \in OwnedBy(teams, u) : \E i \in 1..Len(s) : s[i].id = t.id
      /\ \A i, j \in 1..Len(s) : i < j => ~StrLess(s[j].team_name, s[i].team_name)
      /\ \A i \in 1..Len(s) :
           /\ s[i].player_count =
                Cardinality({p \in OwnedBy(players, u) : p.team_id = Some(s[i].id)})
           /\ Team_findByIdWithPlayerCount(teams, players, s[i].id, u) # NULL
           /\ Team_findByIdWithPlayerCount(teams, players, s[i].id, u)[1].player_count
                = s[i].player_count

\* team_name of the team with id `id`
TeamNameOf(id) == (CHOOSE t \in teams : t.id = id).team_name

\* the list s has global players first, by player name, then the players on
\* teams, by team name and then player name
GlobalFirstThenByTeam(s) ==
  \A i, j \in 1..Len(s) :
    i < j =>
      /\ s[j].team_id = NULL => s[i].team_id = NULL
      /\ (s[i].team_id = NULL /\ s[j].team_id = NULL) =>
           ~StrLess(s[j].player_name, s[i].player_name)
      /\ (s[i].team_id # NULL /\ s[j].team_id # NULL) =>
           /\ ~StrLess(TeamNameOf(s[j].team_id[1]), TeamNameOf(s[i].team_id[1]))
           /\ TeamNameOf(s[i].team_id[1]) = TeamNameOf(s[j].team_id[1]) =>
                ~StrLess(s[j].player_name, s[i].player_name)

\* the list s has each of the players of P once, and nothing else
ListsExactly(s, P) ==
  /\ Len(s) = Cardinality(P)
  /\ \A p \in P : \E i \in 1..Len(s) :
       /\ s[i].id = p.id
       /\ s[i].player_name = p.player_name
       /\ s[i].team_id = p.team_id
  /\ \A i \in 1..Len(s) : \E p \in P : s[i].id = p.id

\* C14: listByOwner(owner) returns exactly the owner's players, global players
\* before assigned ones; global players by player name ascending, assigned
\* players by team name ascending and then player name ascending.
C14_ListByOwnerOrder ==
  /\ \A u \in Users :
       \A s \in Player_findAllByUserId(teams, players, u) :
         ListsExactly(s, OwnedBy(players, u)) /\ GlobalFirstThenByTeam(s)
  /\ (req.op = "getAllPlayers") =>
       ListsExactly(res.data, OwnedBy(players, req.user)) /\ GlobalFirstThenByTeam(res.data)

\* a list of a global player and of players on two teams of different names
C14_Witness ==
  /\ req.op = "getAllPlayers"
  /\ Len(res.data) = 3
  /\ res.data[1].team_id = NULL
  /\ res.data[2].team_id # NULL
  /\ res.data[3].team_id # NULL
  /\ res.data[2].team_name # res.data[3].team_name
  /\ StrLess(res.data[2].player_name, res.data[1].player_name)

\* text contains sub, letters compared without regard to case
Contains(text, sub) ==
  \E i \in 0..(Len(text) - Len(sub)) :
    \A k \in 1..Len(sub) : Lower(text[i + k]) = Lower(sub[k])

\* the players of user u whose name, or whose team's name, contains text
Matching(text, u) ==
  { p \in OwnedBy(players, u) :
      \/ Contains(p.player_name, text)
      \/ p.team_id # NULL /\ Contains(TeamNameOf(p.team_id[1]), text) }

\* q is a search text the handler accepts
SearchText(q) == q # NULL /\ \E i \in 1..Len(q[1]) : q[1][i] # " "

\* what C15 says of a search for one of the texts of Q
SearchFinds(Q) ==
  (req.op = "searchPlayers" /\ req.body.q \in Q) =>
    IF SearchText(req.body.q)
      THEN /\ res.status = 200
           /\ ListsExactly(res.data, Matching(trim(req.body.q[1]), req.user))
           /\ GlobalFirstThenByTeam(res.data)
      ELSE res.status = 400 /\ res.data = NULL

\* C15: search(text, owner) returns exactly the owner's players whose player
\* name or whose team's name contains text as a case-insensitive substring, in
\* the order of listByOwner; an empty or whitespace-only text is rejected and
\* no query is executed.
C15_SearchBySubstring == SearchFinds(SearchQueries)

\* the same for the texts that have neither % nor _ in them
C15_SearchPlainText ==
  SearchFinds({ q \in SearchQueries :
                  q = NULL \/ \A i \in 1..Len(q[1]) : q[1][i] \notin {"%", "_"} })

\* the list s has the players with a position first, by position and then
\* player name, and then those with no position, by player name
PositionFirstThenName(s) ==
  \A i, j \in 1..Len(s) :
    i < j =>
      /\ s[i].position = NULL => s[j].position = NULL
      /\ (s[i].position # NULL /\ s[j].position # NULL) =>
           ~StrLess(s[j].position[1], s[i].position[1])
      /\ s[i].position = s[j].position =>
           ~StrLess(s[j].player_name, s[i].player_name)

\* the list s has each of the players of user u on team T once, nothing else
ListsRoster(s, T, u) ==
  LET roster == {p \in OwnedBy(players, u) : p.team_id = Some(T)}
  IN /\ Len(s) = Cardinality(roster)
     /\ \A p \in roster : \E i \in 1..Len(s) : s[i] = PlayerColumns(p)
     /\ \A i \in 1..Len(s) : \E p \in roster : s[i].id = p.id

\* C16: listByTeam(teamId, owner) and the player list of getHierarchy(teamId,
\* owner) return the same players in the same order: those with a position
\* first, by position ascending, then those with none, ties broken by player
\* name ascending.  (Rows equal in position and name come in any order.)
C16_RosterOrder ==
  /\ \A u \in Users, T \in TeamIds :
       /\ Team_hierarchyPlayers(players, T, u) = Player_findAllByTeamId(players, T, u)
       /\ \A s \in Player_findAllByTeamId(players, T, u) :
            ListsRoster(s, T, u) /\ PositionFirstThenName(s)
  /\ (req.op = "getTeamHierarchy" /\ res.status = 200) =>
       /\ res.data[1].players \in Player_findAllByTeamId(players, req.id[1], req.user)
       /\ ListsRoster(res.data[1].players, req.id[1], req.user)
       /\ PositionFirstThenName(res.data[1].players)

\* a hierarchy of three players: two with different positions, the one of the
\* later name first, and one with no position
C16_Witness ==
  /\ req.op = "getTeamHierarchy"
  /\ res.status = 200
  /\ Len(res.data[1].players) = 3
  /\ res.data[1].players[1].position = Some(<<"d">>)
  /\ res.data[1].players[2].position = Some(<<"f">>)
  /\ res.data[1].players[3].position = NULL
  /\ StrLess(res.data[1].players[2].player_name, res.data[1].players[1].player_name)

\* C17: initializeDatabase is all-or-nothing: when one of its table or index
\* statements fails, no object made in that run is retained, the error
\* reaches the caller, and start-up ends the process.
C17_SchemaAllOrNothing ==
  /\ boot.schema \in {boot.schema0, boot.schema0 \cup Objects}
  /\ (boot.failed # NULL /\ boot.failed[1] \in Objects) =>
       /\ boot.schema = boot.schema0
       /\ boot.pc \in {"rollback", "exited"}
       /\ boot.pc = "exited" =>
            /\ boot.created = {}
            /\ boot.threw
            /\ boot.exit = Some(1)

\* the last index statement has failed on a store that was empty, after five
\* objects had been made, and the process has exited
C17_Witness ==
  /\ boot.schema0 = {}
  /\ boot.failed = Some("idx_teams_user_id")
  /\ boot.pc = "exited"

\* the rows of `new` have the owner they had in `old`; a row that `old` has
\* not was made by the create handler `op`, with the caller as its owner
OwnersKept(old, new, op) ==
  \A n \in new :
    /\ n.user_id \in Users
    /\ \A o \in old : o.id = n.id => o.user_id = n.user_id
    /\ (\A o \in old : o.id # n.id) => (req.op = op /\ n.user_id = req.user)

\* C18: the owning user id of a team and of a player is set at creation to the
\* caller's id, and no later operation changes it.
C18_OwnerImmutable ==
  /\ OwnersKept(before.teams, teams, "createTeam")
  /\ OwnersKept(before.players, players, "createPlayer")

\* a team of one user and a player of the other on it have both been written
\* to after their creation: the team has just been updated
C18_Witness ==
  /\ req.op = "updateTeam"
  /\ res.status = 200
  /\ \E o \in before.teams, n \in teams :
       /\ o.id = n.id /\ o.id = req.id[1]
       /\ o.team_name # n.team_name
       /\ \E p \in players : p.team_id = Some(n.id) /\ p.user_id # n.user_id

\* the request the handler sees when the token's user is the caller: nothing
\* of the owner id the client has sent
AsTokenUser(r) ==
  [r EXCEPT !.user = TokenOf(r.authorization)[1].id, !.claimed = NULL]

\* C19: a request without a token gets 401 and one with a token that does not
\* verify gets 403, and neither reads or writes a row; any other request is
\* handled for the token's user id, whatever owner id the client has sent.
C19_OwnerFromToken ==
  req.op # "none" =>
    IF TokenOf(req.authorization) = NULL
      THEN res.status = 401 /\ res.data = NULL /\ DB = before
    ELSE IF ~TokenOf(req.authorization)[1].verifies
      THEN res.status = 403 /\ res.data = NULL /\ DB = before
    ELSE /\ req.user = TokenOf(req.authorization)[1].id
         /\ [res |-> res, db |-> DB] \in Handle(before, AsTokenUser(req))

\* a client with the token of user 2 has sent user 1 as the owner, and has
\* created a player: user 2 owns it
C19_Witness ==
  /\ req.op = "createPlayer"
  /\ TokenOf(req.authorization) = Some([id |-> 2, verifies |-> TRUE])
  /\ req.claimed = Some(1)
  /\ res.status = 201
  /\ \E p \in players : p.id \notin {o.id : o \in before.players} /\ p.user_id = 2

\* the number of players Team.getTeamHierarchy returns for team `id` of user u
HierarchySizes(id, u) ==
  { Len(Team_getTeamHierarchy(teams, id, u, rows)[1].players) :
      rows \in Team_hierarchyPlayers(players, id, u) }

\* C20: for every team of every owner, the player_count of the team in
\* Team.findByIdWithPlayerCount and in Team.findAllWithPlayerCounts is the
\* number of players Team.getTeamHierarchy returns for it in the same state.
C20_CountIsHierarchySize ==
  \A u \in Users : \A t \in OwnedBy(teams, u) :
    /\ HierarchySizes(t.id, u) =
         {Team_findByIdWithPlayerCount(teams, players, t.id, u)[1].player_count}
    /\ \A s \in Team_findAllWithPlayerCounts(teams, players, u) :
         \A i \in 1..Len(s) :
           s[i].id = t.id => HierarchySizes(t.id, u) = {s[i].player_count}

\* C21: a request is accepted only when initializeApp has finished: the
\* schema is there and the default-user bootstrap is done.
C21_AcceptedAfterInit ==
  boot.acceptedAt # NULL =>
    /\ boot.acceptedAt = Some("done")
    /\ Objects \subseteq boot.schema
    /\ boot.userCount > 0

\* the getTeamHierarchy of slot s sends its response in this step
HierarchyReplies(s) ==
  /\ pending[s] # NULL
  /\ pending[s][1].stmt = 2
  /\ pending[s][1].req.op = "getTeamHierarchy"
  /\ pending'[s] = NULL

\* the rows of a list
RowsOf(list) == { list[i] : i \in 1..Len(list) }

\* C22: the team and the player list a getTeamHierarchy returns are those of
\* one state of the store between its team lookup and its response: the team
\* was there, as returned, with exactly the returned players.
C22_HierarchyOneState ==
  [][\A s \in Slots :
       HierarchyReplies(s) =>
         /\ res'.status = 200
         /\ [res'.data[1] EXCEPT !.players = <<>>] = pending[s][1].held[1]
         /\ RowsOf(res'.data[1].players) \in pending[s][1].seen]_vars

\* the response data is the team with the values updateTeam has written
TeamAsWritten(data, id, body) ==
  /\ data # NULL
  /\ data[1].id = id
  /\ data[1].team_name = trim(body.team_name[1])
  /\ data[1].team_logo = cleanTeamLogo(body)
  /\ data[1].team_color = cleanTeamColor(body)
  /\ data[1].description = cleanDescription(body)

\* the response data is the player with the values updatePlayer has written
PlayerAsWritten(data, id, body) ==
  /\ data # NULL
  /\ data[1].id = id
  /\ data[1].player_name = trim(body.player_name[1])
  /\ data[1].position = cleanPosition(body)
  /\ data[1].jersey_number = cleanJerseyNumber(body)
  /\ data[1].team_id = OrNull(body.team_id)

\* C23: every 200 response of updateTeam, updatePlayer and assignPlayerToTeam
\* carries the updated record, not null, with the values just written.
C23_UpdateReturnsRecord ==
  res.status = 200 =>
    /\ req.op = "updateTeam" => TeamAsWritten(res.data, req.id[1], req.body)
    /\ req.op = "updatePlayer" => PlayerAsWritten(res.data, req.id[1], req.body)
    /\ req.op = "assignPlayerToTeam" =>
         /\ res.data # NULL
         /\ res.data[1].id = req.id[1]
         /\ res.data[1].team_id = req.body.team_id

\* C24: when migrate.js has ended, with or without an error, players.team_id
\* has a foreign key to teams, and no player references a team that is not
\* there.
C24_ForeignKeyKept ==
  boot.exit # NULL => (boot.fk # NULL /\ TeamIdsExist)

====
